---- MODULE Spec2Model ----
(***************************************************************************)
(* Token service and access-control gates of the task manager services.   *)
(*                                                                         *)
(* Two JWT services are modelled side by side: task_manager_test           *)
(* (internal/service/jwt_service.go) and task_manager_clean                *)
(* (infrastructure/jwt_service.go).  The gin middleware AuthMiddleware and *)
(* AdminOnly and the route table are modelled as a per-request handler     *)
(* chain driven by the gin context index.                                  *)
(*                                                                         *)
(* The account side is modelled next to it: the bcrypt password service,   *)
(* the users collection, the Register and Login use cases with their       *)
(* /register and /login endpoints (task_manager_test, task_manager_clean   *)
(* and task_manager_auth), and the lazily initialised signing key of       *)
(* task_manager_auth under concurrent requests.                            *)
(*                                                                         *)
(* Around both: the startup of the three processes (main), the route       *)
(* tables with their public routes, requests of the layered services       *)
(* served concurrently, and concurrent registrations of task_manager_auth. *)
(***************************************************************************)
EXTENDS Integers, Sequences, FiniteSets, TLC

VARIABLES
    app,      \* which service implementation the process runs: "test" | "clean"
    secret,   \* jwtService.secret, the process secret handed to NewJWTService
    now,      \* wall clock, in ticks (TicksPerSecond ticks per second)
    tok,      \* the token string under study, produced by a service or by a client
    origin,   \* how tok was produced: GenerateToken call record, or a client-made token
    vres,     \* outcome of the last direct ValidateToken call on tok
    req,      \* the in-flight HTTP request (gin.Context)
    users,    \* the users collection: username -> stored document
    sess,     \* the last Register / Login request served, with its collaborator calls
    pw,       \* the last direct call of the password service (Hash / Compare)
    env,      \* the JWT_SECRET environment value of task_manager_auth ("" is unset)
    jwtKey,   \* package variable middleware.jwtKey of task_manager_auth
    keyOnce,  \* package variable middleware.keyOnce: "fresh" | "running" | "done"
    gor,      \* the goroutines of task_manager_auth serving requests concurrently
    inits,    \* how many times the initialiser inside JwtKey has run
    proc,     \* the process: "starting" (in main) | "serving" (router.Run) | "exited"
    ctxs      \* the gin contexts of the requests served concurrently, one per request

vars == <<app, secret, now, tok, origin, vres, req, users, sess, pw, env, jwtKey, keyOnce,
          gor, inits, proc, ctxs>>

\* the process state and the concurrent contexts, left alone by the operations on
\* a single request
procVars == <<proc, ctxs>>

\* the account-side state, left alone by the token and gate operations
acctVars == <<users, sess, pw, env, jwtKey, keyOnce, gor, inits, procVars>>

----------------------------------------------------------------------------
(* Bounds and program constants *)

\* clock resolution below one second (time.Now() is finer than Unix())
TicksPerSecond == 2
\* how many ticks the clock may advance one by one after each long jump
MaxSubTicks == 3
\* how many long jumps (of one validity window less one tick) the clock takes
MaxJumps == 1
\* 24 * time.Hour, in seconds
ValiditySeconds == 86400

ValidityTicks == ValiditySeconds * TicksPerSecond
JumpTicks == ValidityTicks - 1

Secrets == {"k1", "k2"}
RsaKey == "rsa-private-key"
Usernames == {"alice", "bob"}
Roles == {"admin", "user"}

----------------------------------------------------------------------------
(* JSON values of a claim set (jwt.MapClaims is map[string]interface{}) *)

Str(s) == [k |-> "str", s |-> s, n |-> 0]
Num(n) == [k |-> "num", s |-> "", n |-> n]
Absent == [k |-> "absent", s |-> "", n |-> 0]

IsStr(v) == v.k = "str"
IsNum(v) == v.k = "num"

\* a nil jwt.MapClaims: every lookup yields the zero interface value
NilClaims == [ok |-> FALSE, username |-> Absent, role |-> Absent, exp |-> Absent]

MapClaims(username, role, exp) ==
    [ok |-> TRUE, username |-> username, role |-> role, exp |-> exp]

\* error values: the chain of wrapped messages, <<>> is nil
Nil == <<>>
ErrorContains(err, msg) == \E i \in 1..Len(err) : err[i] = msg

----------------------------------------------------------------------------
(* Signing methods of golang-jwt as used by the services *)

HMACAlgs == {"HS256", "HS384", "HS512"}
RegisteredAlgs == HMACAlgs \cup {"RS256", "none"}

\* a nil or empty []byte, which the HMAC methods take as a key like any other
EmptyKey == ""
IsBytesKey(key) == key \in Secrets \cup {EmptyKey}

\* the MAC / signature a method computes over the signing input with a key
Signature(meth, key, hdr, pay) == [meth |-> meth, key |-> key, hdr |-> hdr, pay |-> pay]
NoSignature == [meth |-> "", key |-> "", hdr |-> [ok |-> FALSE, alg |-> ""], pay |-> NilClaims]

\* token.SignedString(key) for a token built by jwt.NewWithClaims(method, claims)
SignedString(meth, claims, key) ==
    LET hdr == [ok |-> TRUE, alg |-> meth]
    IN  IF meth \in HMACAlgs /\ ~IsBytesKey(key)
        THEN [tok |-> [nseg |-> 0, hdr |-> hdr, pay |-> claims, sig |-> NoSignature],
              err |-> <<"key is of invalid type">>]
        ELSE [tok |-> [nseg |-> 3, hdr |-> hdr, pay |-> claims,
                       sig |-> Signature(meth, key, hdr, claims)],
              err |-> Nil]

\* time.Now().Unix(): whole seconds since the epoch
Unix(t) == t \div TicksPerSecond

\* mutant of GenerateToken: the two identity claims are stored under each other's key
GenerateTokenSwapped(key, username, role, t) ==
    LET claims == MapClaims(Str(role), Str(username), Num(Unix(t + ValidityTicks)))
    IN  SignedString("HS256", claims, key)

\* mutant of GenerateToken: exp holds the length of the validity window, not the
\* instant at which it ends
GenerateTokenRelative(key, username, role, t) ==
    LET claims == MapClaims(Str(username), Str(role), Num(ValiditySeconds))
    IN  SignedString("HS256", claims, key)

\* jwtService.GenerateToken(username, role) at clock t on a service holding key
GenerateToken(key, username, role, t) ==
    LET claims == MapClaims(Str(username), Str(role), Num(Unix(t + ValidityTicks)))
    IN  SignedString("HS256", claims, key)

----------------------------------------------------------------------------
(* jwt.Parse as called by ValidateToken *)

\* the Keyfunc closure handed to jwt.Parse by task_manager_test
KeyfuncTest(key, alg) ==
    IF alg \notin HMACAlgs
    THEN [key |-> "", err |-> <<"unexpected signing method">>]
    ELSE [key |-> key, err |-> Nil]

\* the Keyfunc closure handed to jwt.Parse by task_manager_clean
KeyfuncClean(key, alg) == [key |-> key, err |-> Nil]

Keyfunc(a, key, alg) ==
    IF a = "test" THEN KeyfuncTest(key, alg) ELSE KeyfuncClean(key, alg)

\* mutant of MethodVerify: the MAC is compared without regard to the key
MethodVerifyAnyKey(alg, hdr, pay, sig, key) ==
    IF alg \in HMACAlgs
    THEN IF sig.meth = alg /\ sig.hdr = hdr /\ sig.pay = pay THEN Nil
         ELSE <<"signature is invalid">>
    ELSE <<"key is of invalid type">>

\* token.Method.Verify(signingInput, signature, key)
MethodVerify(alg, hdr, pay, sig, key) ==
    IF alg \in HMACAlgs
    THEN IF ~IsBytesKey(key) THEN <<"key is of invalid type">>
         ELSE IF sig = Signature(alg, key, hdr, pay) THEN Nil
         ELSE <<"signature is invalid">>
    ELSE IF alg = "RS256" THEN <<"key is of invalid type">>
    ELSE <<"'none' signature type is not allowed">>

\* mutant of ExpiredAt: a token is still accepted at the very instant of its exp
ExpiredAtExclusive(exp, t) == ~(t <= exp * TicksPerSecond)

\* the validator's expiry check: a token is expired unless now is before exp
ExpiredAt(exp, t) == ~(t < exp * TicksPerSecond)

ValidateClaims(claims, t) ==
    IF claims.exp.k = "absent" THEN Nil
    ELSE IF ~IsNum(claims.exp) THEN <<"token has invalid claims", "invalid type for claim">>
    ELSE IF ExpiredAt(claims.exp.n, t) THEN <<"token has invalid claims", "token is expired">>
    ELSE Nil

\* mutant of SegmentsOk: accepts any string with at least three segments
SegmentsAtLeastThree(tokenStr) == tokenStr.nseg >= 3

\* strings.Split(tokenStr, ".") must yield exactly three parts
SegmentsOk(tokenStr) == tokenStr.nseg = 3

\* jwt.Parse(tokenStr, keyfunc): [valid, claims, err]
Parse(a, key, tokenStr, t) ==
    IF ~SegmentsOk(tokenStr)
    THEN [valid |-> FALSE, claims |-> NilClaims,
          err |-> <<"token is malformed", "token contains an invalid number of segments">>]
    ELSE IF ~tokenStr.hdr.ok \/ ~tokenStr.pay.ok
    THEN [valid |-> FALSE, claims |-> NilClaims,
          err |-> <<"token is malformed", "could not decode segment">>]
    ELSE IF tokenStr.hdr.alg \notin RegisteredAlgs
    THEN [valid |-> FALSE, claims |-> tokenStr.pay,
          err |-> <<"token is unverifiable", "signing method (alg) is unavailable">>]
    ELSE LET kf == Keyfunc(a, key, tokenStr.hdr.alg)
             sigErr == MethodVerify(tokenStr.hdr.alg, tokenStr.hdr, tokenStr.pay,
                                    tokenStr.sig, kf.key)
             clErr == ValidateClaims(tokenStr.pay, t)
         IN  IF kf.err # Nil
             THEN [valid |-> FALSE, claims |-> tokenStr.pay,
                   err |-> <<"token is unverifiable", "error while executing keyfunc">>
                           \o kf.err]
             ELSE IF sigErr # Nil
             THEN [valid |-> FALSE, claims |-> tokenStr.pay,
                   err |-> <<"token signature is invalid">> \o sigErr]
             ELSE IF clErr # Nil
             THEN [valid |-> FALSE, claims |-> tokenStr.pay, err |-> clErr]
             ELSE [valid |-> TRUE, claims |-> tokenStr.pay, err |-> Nil]

\* jwtService.ValidateToken(tokenStr) of task_manager_test
ValidateTokenTest(key, tokenStr, t) ==
    LET p == Parse("test", key, tokenStr, t)
    IN  IF p.err # Nil THEN [claims |-> NilClaims, err |-> p.err]
        ELSE IF ~p.valid THEN [claims |-> NilClaims, err |-> <<"invalid token">>]
        ELSE [claims |-> p.claims, err |-> Nil]

\* jwtService.ValidateToken(tokenStr) of task_manager_clean
ValidateTokenClean(key, tokenStr, t) ==
    LET p == Parse("clean", key, tokenStr, t)
    IN  IF p.err # Nil \/ ~p.valid THEN [claims |-> NilClaims, err |-> p.err]
        ELSE [claims |-> p.claims, err |-> Nil]

ValidateToken(a, key, tokenStr, t) ==
    IF a = "test" THEN ValidateTokenTest(key, tokenStr, t)
    ELSE ValidateTokenClean(key, tokenStr, t)

----------------------------------------------------------------------------
(* Token strings a client can present *)

\* "" : strings.Split yields a single empty segment
EmptyToken ==
    [nseg |-> 1, hdr |-> [ok |-> FALSE, alg |-> ""], pay |-> NilClaims, sig |-> NoSignature]

\* strings that are not three base64url JSON segments, e.g. "this.is.not.a.valid.jwt"
GarbageTokens ==
    { [nseg |-> n, hdr |-> [ok |-> FALSE, alg |-> ""], pay |-> NilClaims, sig |-> NoSignature]
        : n \in {1, 3, 6} }
    \cup { [nseg |-> 3, hdr |-> [ok |-> TRUE, alg |-> "HS256"], pay |-> NilClaims,
            sig |-> NoSignature] }

\* claim sets a holder of a key may sign besides the ones GenerateToken builds
ClientExp == {Absent, Num(1), Num(ValiditySeconds)}
ClientClaims ==
    { MapClaims(u, r, e) : u \in {Str("alice"), Absent},
                           r \in {Str("admin"), Str("user"), Num(123), Absent},
                           e \in ClientExp }

\* the (method, key) pairs client-made tokens are signed with
ClientSigners ==
    ({"HS256", "HS512"} \X Secrets) \cup {<<"RS256", RsaKey>>, <<"none", "">>, <<"XX", "">>}

NoOrigin == [op |-> "none", key |-> "", username |-> "", role |-> "", at |-> 0, err |-> Nil]
NoResult == [op |-> "none", key |-> "", at |-> 0, claims |-> NilClaims, err |-> Nil]

----------------------------------------------------------------------------
(* The HTTP request pipeline (gin) *)

\* the routes of the /api group
ApiPaths == {"/api/tasks", "/api/admin/dashboard"}

\* the public routes, registered on the engine itself
PublicRoutes == {"/register", "/login"}

Routes == {"/api/tasks", "/api/admin/dashboard", "/admin"} \cup PublicRoutes

\* the Authorization header: scheme prefix and the rest of the value
Schemes == {"", "Basic ", "bearer ", "Bearer "}

\* mutant of HasBearerPrefix: only the presence of a header value is checked
HasAnyScheme(auth) == auth.scheme # ""

\* strings.HasPrefix(auth, "Bearer ")
HasBearerPrefix(auth) == auth.scheme = "Bearer "

\* mutant of Chain: the admin subgroup registers AdminOnly ahead of AuthMiddleware
ChainAdminFirst(route, preset) ==
    IF route \in PublicRoutes THEN <<"Account">>
    ELSE IF route = "/api/tasks" THEN <<"AuthMiddleware", "Handler">>
    ELSE IF route = "/api/admin/dashboard" THEN <<"AdminOnly", "AuthMiddleware", "Handler">>
    ELSE IF preset = Absent THEN <<"AdminOnly", "Handler">>
    ELSE <<"SetRole", "AdminOnly", "Handler">>

\* mutant of Chain: AuthMiddleware is registered on the engine with r.Use, ahead
\* of the public routes
ChainGlobalAuth(route, preset) ==
    IF route \in PublicRoutes THEN <<"AuthMiddleware", "Account">>
    ELSE IF route = "/api/tasks" THEN <<"AuthMiddleware", "Handler">>
    ELSE IF route = "/api/admin/dashboard" THEN <<"AuthMiddleware", "AdminOnly", "Handler">>
    ELSE IF preset = Absent THEN <<"AdminOnly", "Handler">>
    ELSE <<"SetRole", "AdminOnly", "Handler">>

\* the handler chain gin runs for a route.  "/admin" is the route the middleware
\* tests register: an optional role-setting handler, AdminOnly, then the handler.
Chain(route, preset) ==
    IF route \in PublicRoutes THEN <<"Account">>
    ELSE IF route = "/api/tasks" THEN <<"AuthMiddleware", "Handler">>
    ELSE IF route = "/api/admin/dashboard" THEN <<"AuthMiddleware", "AdminOnly", "Handler">>
    ELSE IF preset = Absent THEN <<"AdminOnly", "Handler">>
    ELSE <<"SetRole", "AdminOnly", "Handler">>

IdleRequest ==
    [pc |-> "idle", route |-> "", auth |-> [scheme |-> "", tok |-> EmptyToken],
     preset |-> Absent, index |-> 1, aborted |-> FALSE, status |-> 0, body |-> "",
     username |-> Absent, role |-> Absent,
     validateCalls |-> 0, verr |-> Nil, adminOnlyRan |-> 0, handlerRan |-> 0, panicked |-> FALSE]

NewRequest(route, scheme, t, preset) ==
    [IdleRequest EXCEPT !.pc = "run", !.route = route,
                        !.auth = [scheme |-> scheme, tok |-> t], !.preset = preset]

\* mutant of Reject: the response is written but c.Abort() is not called, so gin
\* goes on to the following handler of the chain
RejectAndContinue(c, status, msg) ==
    [c EXCEPT !.status = status, !.body = msg, !.index = @ + 1]

\* c.JSON(status, gin.H{"error": msg}); c.Abort()
Reject(c, status, msg) ==
    [c EXCEPT !.status = status, !.body = msg, !.aborted = TRUE]

\* c.Next(): hand over to the following handler of the chain
NextHandler(c) == [c EXCEPT !.index = @ + 1]

\* mutant of AuthMiddleware: the rejection body carries the verification error's text
AuthMiddlewareLeaky(c) ==
    IF ~HasBearerPrefix(c.auth)
    THEN Reject(c, 401, "missing token")
    ELSE LET r == ValidateToken(app, secret, c.auth.tok, now)
             c1 == [c EXCEPT !.validateCalls = @ + 1, !.verr = r.err]
         IN  IF r.err # Nil
             THEN Reject(c1, 401, r.err[Len(r.err)])
             ELSE LET c2 == IF IsStr(r.claims.username)
                            THEN [c1 EXCEPT !.username = r.claims.username] ELSE c1
                      c3 == IF IsStr(r.claims.role)
                            THEN [c2 EXCEPT !.role = r.claims.role] ELSE c2
                  IN  NextHandler(c3)

\* infrastructure.AuthMiddleware(jwtSvc)(c)
AuthMiddleware(c) ==
    IF ~HasBearerPrefix(c.auth)
    THEN Reject(c, 401, "missing token")
    ELSE LET r == ValidateToken(app, secret, c.auth.tok, now)
             c1 == [c EXCEPT !.validateCalls = @ + 1, !.verr = r.err]
         IN  IF r.err # Nil
             THEN Reject(c1, 401, "invalid or expired token")
             ELSE LET c2 == IF IsStr(r.claims.username)
                            THEN [c1 EXCEPT !.username = r.claims.username] ELSE c1
                      c3 == IF IsStr(r.claims.role)
                            THEN [c2 EXCEPT !.role = r.claims.role] ELSE c2
                  IN  NextHandler(c3)

\* mutant of AdminOnly: the role is asserted to be a string without the comma-ok
\* form, so a missing or non-string role panics
AdminOnlyUnchecked(c) ==
    LET c1 == [c EXCEPT !.adminOnlyRan = @ + 1]
    IN  IF ~IsStr(c.role)
        THEN [c1 EXCEPT !.panicked = TRUE, !.status = 500, !.aborted = TRUE]
        ELSE IF c.role.s # "admin"
        THEN Reject(c1, 403, "admin access required")
        ELSE NextHandler(c1)

\* mutant of AdminOnly: the role it asserted is stored back into the context
AdminOnlyNormalising(c) ==
    LET exists == c.role # Absent
        role == IF IsStr(c.role) THEN c.role.s ELSE ""
        c1 == [c EXCEPT !.adminOnlyRan = @ + 1, !.role = Str(role)]
    IN  IF ~exists \/ role # "admin"
        THEN Reject(c1, 403, "admin access required")
        ELSE NextHandler(c1)

\* infrastructure.AdminOnly()(c)
AdminOnly(c) ==
    LET exists == c.role # Absent
        role == IF IsStr(c.role) THEN c.role.s ELSE ""
        c1 == [c EXCEPT !.adminOnlyRan = @ + 1]
    IN  IF ~exists \/ role # "admin"
        THEN Reject(c1, 403, "admin access required")
        ELSE NextHandler(c1)

\* the role-setting handler of the middleware tests: c.Set("role", v); c.Next()
SetRole(c) == NextHandler([c EXCEPT !.role = c.preset])

\* the route's final handler (task controller, AdminDashboard): answers 200
Handler(c) ==
    NextHandler([c EXCEPT !.handlerRan = @ + 1, !.status = 200, !.body = "ok"])

\* the handler of a public route, reached by a request that carries no body:
\* ShouldBindJSON fails and the controller answers 400
Account(c) ==
    NextHandler([c EXCEPT !.handlerRan = @ + 1, !.status = 400, !.body = "invalid request"])

\* gin stops the chain once it is aborted or exhausted
Settle(c) ==
    IF c.aborted \/ c.index > Len(Chain(c.route, c.preset))
    THEN [c EXCEPT !.pc = "done"] ELSE c

Current(c) == Chain(c.route, c.preset)[c.index]

----------------------------------------------------------------------------
(* Password service: golang.org/x/crypto/bcrypt behind Hash and Compare *)

\* the key schedule of bcrypt reads this many bytes of key material
MaxKeyBytes == 72
\* bcrypt.DefaultCost, the cost Hash asks for
DefaultCost == 10
\* the cost data.Register of task_manager_auth asks for
AuthCost == 14
\* the length below which bcrypt takes a string for no hash at all
MinHashSize == 59

\* a password is a byte string: 0 is the NUL byte, 1 and 2 are two printable bytes
Long(n) == [i \in 1..n |-> 1]
Passwords ==
    {<<>>, <<1>>, <<2>>, <<1, 0, 1>>, Long(MaxKeyBytes), Long(MaxKeyBytes) \o <<2>>}

\* the random 16-byte salts rand.Reader may deliver
Salts == {1, 2}

\* strings held in a password field: a plaintext, an encoded bcrypt hash
\* ("$2a$<cost>$<salt><digest>"), or some other text that is no bcrypt hash
PlainString(text) ==
    [fmt |-> "plain", cost |-> 0, salt |-> 0, digest |-> <<>>, text |-> text]
EmptyString == PlainString(<<>>)
ForeignFormats == {"truncated", "bad-prefix", "newer-version", "bad-cost"}
ForeignString(fmt) ==
    [fmt |-> fmt, cost |-> 0, salt |-> 0, digest |-> <<>>, text |-> <<>>]

\* the key material the Blowfish key schedule consumes: the password followed by
\* a NUL byte, read cyclically, MaxKeyBytes bytes in all
BcryptKey(password) ==
    LET ckey == Append(password, 0)
    IN  [i \in 1..MaxKeyBytes |-> ckey[((i - 1) % Len(ckey)) + 1]]

\* the encoded hash: cost, salt and the digest the three determine
Bcrypt(password, cost, salt) ==
    [fmt |-> "bcrypt", cost |-> cost, salt |-> salt,
     digest |-> <<cost, salt, BcryptKey(password)>>, text |-> <<>>]

\* bcrypt.GenerateFromPassword(password, cost); entropyOk is whether rand.Reader
\* delivers the salt
GenerateFromPassword(password, cost, salt, entropyOk) ==
    IF Len(password) > MaxKeyBytes
    THEN [hash |-> EmptyString, err |-> <<"bcrypt: password length exceeds 72 bytes">>]
    ELSE IF ~entropyOk
    THEN [hash |-> EmptyString, err |-> <<"unexpected EOF">>]
    ELSE [hash |-> Bcrypt(password, cost, salt), err |-> Nil]

\* bcrypt.CompareHashAndPassword(hashedPassword, password)
CompareHashAndPassword(hashed, password) ==
    IF hashed.fmt = "bcrypt"
    THEN IF hashed.digest = <<hashed.cost, hashed.salt, BcryptKey(password)>>
         THEN Nil
         ELSE <<"crypto/bcrypt: hashedPassword is not the hash of the given password">>
    ELSE IF hashed.fmt = "truncated"
              \/ (hashed.fmt = "plain" /\ Len(hashed.text) < MinHashSize)
    THEN <<"crypto/bcrypt: hashedSecret too short to be a bcrypted password">>
    ELSE IF hashed.fmt \in {"plain", "bad-prefix"}
    THEN <<"crypto/bcrypt: bcrypt hashes must start with '$'">>
    ELSE IF hashed.fmt = "newer-version"
    THEN <<"crypto/bcrypt: bcrypt algorithm version requested is newer than current version">>
    ELSE <<"crypto/bcrypt: cost outside allowed range">>

\* bcryptHasher.Hash(password)
Hash(password, salt, entropyOk) ==
    LET r == GenerateFromPassword(password, DefaultCost, salt, entropyOk)
    IN  [hashed |-> r.hash, err |-> r.err]

\* mutant of Compare: only a mismatch of a well-formed hash counts as a refusal
CompareMismatchOnly(hashed, password) ==
    CompareHashAndPassword(hashed, password)
        # <<"crypto/bcrypt: hashedPassword is not the hash of the given password">>

\* bcryptHasher.Compare(hashed, password)
Compare(hashed, password) == CompareHashAndPassword(hashed, password) = Nil

\* no direct call of the password service made yet
NoPw ==
    [op |-> "none", password |-> <<>>, hashed |-> EmptyString, err |-> Nil,
     entropyOk |-> TRUE, other |-> <<>>, ok |-> FALSE]

----------------------------------------------------------------------------
(* Accounts: the users collection, the repositories and the Register / Login
   use cases of task_manager_test and task_manager_clean, and data.Register /
   data.Login of task_manager_auth *)

\* how many documents the users collection may grow to
MaxUsers == 1

\* roles a registration request may carry; "" is an absent or empty role field
RequestRoles == Roles \cup {""}

UserDoc(username, password, role) ==
    [username |-> username, password |-> password, role |-> role]
NoDoc == UserDoc("", EmptyString, "")

\* error values of the use case packages
ErrUserAlreadyExists == <<"user already exists">>
ErrInvalidCredentials == <<"invalid credentials">>
ErrNotFound == <<"resource not found">>
\* a driver error of a collection that cannot be reached
ErrDatabase == <<"server selection error">>

\* positions of the documents a filter {"username": username} matches
Matching(us, username) == {i \in 1..Len(us) : us[i].username = username}

\* collection.InsertOne(doc); unique is whether a unique index on username exists
InsertOne(us, doc, unique, dbOk) ==
    IF ~dbOk THEN [users |-> us, err |-> ErrDatabase]
    ELSE IF unique /\ Matching(us, doc.username) # {}
    THEN [users |-> us, err |-> <<"E11000 duplicate key error">>]
    ELSE [users |-> Append(us, doc), err |-> Nil]

\* collection.FindOne({"username": username}).Decode(&rec)
FindOne(us, username, dbOk) ==
    IF ~dbOk THEN [doc |-> NoDoc, err |-> ErrDatabase]
    ELSE IF Matching(us, username) = {}
    THEN [doc |-> NoDoc, err |-> <<"mongo: no documents in result">>]
    ELSE LET i == CHOOSE j \in Matching(us, username) :
                      \A k \in Matching(us, username) : j <= k
         IN  [doc |-> us[i], err |-> Nil]

\* mongoUserRepository.Create of the running service
Create(a, us, u, dbOk) ==
    LET r == InsertOne(us, u, TRUE, dbOk)
    IN  IF r.err = <<"E11000 duplicate key error">>
        THEN [users |-> us,
              err |-> IF a = "test" THEN ErrUserAlreadyExists
                      ELSE <<"username already exists">>]
        ELSE r

\* mutant of FindByUsername: the driver's no-documents error is passed through
FindByUsernameRaw(a, us, username, dbOk) ==
    FindOne(us, username, dbOk)

\* mongoUserRepository.FindByUsername of the running service
FindByUsername(a, us, username, dbOk) ==
    LET r == FindOne(us, username, dbOk)
    IN  IF r.err = <<"mongo: no documents in result">>
        THEN [doc |-> NoDoc,
              err |-> IF a = "test" THEN ErrNotFound
                      ELSE <<"invalid username or password">>]
        ELSE r

\* mutant of Register: the error of Hash is not looked at before Create is called
RegisterIgnoringHashError(a, us, user, salt, entropyOk, dbOk) ==
    LET h == Hash(user.password, salt, entropyOk)
        doc == UserDoc(user.username, h.hashed,
                       IF user.role = "" THEN "user" ELSE user.role)
        c == Create(a, us, doc, dbOk)
    IN  [users |-> c.users, err |-> c.err, calls |-> <<"Hash", "Create">>, doc |-> doc]

\* mutant of Register: the document handed to Create keeps the submitted password
RegisterPlaintext(a, us, user, salt, entropyOk, dbOk) ==
    LET h == Hash(user.password, salt, entropyOk)
        doc == UserDoc(user.username, PlainString(user.password),
                       IF user.role = "" THEN "user" ELSE user.role)
        c == Create(a, us, doc, dbOk)
    IN  IF h.err # Nil
        THEN [users |-> us, err |-> h.err, calls |-> <<"Hash">>, doc |-> NoDoc]
        ELSE [users |-> c.users, err |-> c.err, calls |-> <<"Hash", "Create">>,
              doc |-> doc]

\* userUsecase.Register(ctx, user): the collaborator calls, the document handed
\* to Create, the error returned and the collection afterwards
Register(a, us, user, salt, entropyOk, dbOk) ==
    LET h == Hash(user.password, salt, entropyOk)
        doc == UserDoc(user.username, h.hashed,
                       IF user.role = "" THEN "user" ELSE user.role)
        c == Create(a, us, doc, dbOk)
    IN  IF h.err # Nil
        THEN [users |-> us, err |-> h.err, calls |-> <<"Hash">>, doc |-> NoDoc]
        ELSE [users |-> c.users, err |-> c.err, calls |-> <<"Hash", "Create">>,
              doc |-> doc]

\* the error Login returns for a wrong password
InvalidCredentials(a) ==
    IF a = "test" THEN ErrInvalidCredentials ELSE <<"invalid username or password">>

\* mutant of Login: the token carries the admin role whatever the store holds
LoginAsAdmin(a, key, us, username, password, t, dbOk) ==
    LET f == FindByUsername(a, us, username, dbOk)
        g == GenerateToken(key, f.doc.username, "admin", t)
    IN  IF f.err # Nil
        THEN [token |-> EmptyToken, err |-> f.err, calls |-> <<"FindByUsername">>,
              doc |-> NoDoc]
        ELSE IF ~Compare(f.doc.password, password)
        THEN [token |-> EmptyToken, err |-> InvalidCredentials(a),
              calls |-> <<"FindByUsername", "Compare">>, doc |-> f.doc]
        ELSE [token |-> g.tok, err |-> g.err,
              calls |-> <<"FindByUsername", "Compare", "GenerateToken">>,
              doc |-> f.doc]

\* mutant of Login: the token is generated without consulting Compare
LoginUnchecked(a, key, us, username, password, t, dbOk) ==
    LET f == FindByUsername(a, us, username, dbOk)
        g == GenerateToken(key, f.doc.username, f.doc.role, t)
    IN  IF f.err # Nil
        THEN [token |-> EmptyToken, err |-> f.err, calls |-> <<"FindByUsername">>,
              doc |-> NoDoc]
        ELSE [token |-> g.tok, err |-> g.err,
              calls |-> <<"FindByUsername", "GenerateToken">>, doc |-> f.doc]

\* userUsecase.Login(ctx, username, password) at clock t
Login(a, key, us, username, password, t, dbOk) ==
    LET f == FindByUsername(a, us, username, dbOk)
        g == GenerateToken(key, f.doc.username, f.doc.role, t)
    IN  IF f.err # Nil
        THEN [token |-> EmptyToken, err |-> f.err, calls |-> <<"FindByUsername">>,
              doc |-> NoDoc]
        ELSE IF ~Compare(f.doc.password, password)
        THEN [token |-> EmptyToken, err |-> InvalidCredentials(a),
              calls |-> <<"FindByUsername", "Compare">>, doc |-> f.doc]
        ELSE [token |-> g.tok, err |-> g.err,
              calls |-> <<"FindByUsername", "Compare", "GenerateToken">>,
              doc |-> f.doc]

\* data.Register(user) of task_manager_auth; the error of CountDocuments is dropped
DataRegister(us, user, salt, entropyOk, dbOk) ==
    LET count == IF dbOk THEN Cardinality(Matching(us, user.username)) ELSE 0
        h == GenerateFromPassword(user.password, AuthCost, salt, entropyOk)
        doc == UserDoc(user.username, h.hash, user.role)
        r == InsertOne(us, doc, FALSE, dbOk)
    IN  IF count > 0
        THEN [users |-> us, err |-> <<"username already exists">>,
              calls |-> <<"CountDocuments">>, doc |-> NoDoc]
        ELSE IF h.err # Nil
        THEN [users |-> us, err |-> h.err,
              calls |-> <<"CountDocuments", "GenerateFromPassword">>, doc |-> NoDoc]
        ELSE [users |-> r.users, err |-> r.err,
              calls |-> <<"CountDocuments", "GenerateFromPassword", "InsertOne">>,
              doc |-> doc]

\* data.Login(username, password) of task_manager_auth
DataLogin(us, username, password, dbOk) ==
    LET f == FindOne(us, username, dbOk)
    IN  IF f.err # Nil
        THEN [doc |-> NoDoc, err |-> <<"invalid username or password">>,
              calls |-> <<"FindOne">>]
        ELSE IF CompareHashAndPassword(f.doc.password, password) # Nil
        THEN [doc |-> NoDoc, err |-> <<"invalid username or password">>,
              calls |-> <<"FindOne", "CompareHashAndPassword">>]
        ELSE [doc |-> f.doc, err |-> Nil,
              calls |-> <<"FindOne", "CompareHashAndPassword">>]

\* middleware.JwtKey() on package state (k, once) with JWT_SECRET = e: sync.Once
\* runs the initialiser on the first call only, also when that call panicked
JwtKey(k, once, e) ==
    IF once = "done"
    THEN [key |-> k, panicked |-> FALSE, jwtKey |-> k, keyOnce |-> "done"]
    ELSE IF e = ""
    THEN [key |-> EmptyKey, panicked |-> TRUE, jwtKey |-> k, keyOnce |-> "done"]
    ELSE [key |-> e, panicked |-> FALSE, jwtKey |-> e, keyOnce |-> "done"]

----------------------------------------------------------------------------
(* The /register and /login endpoints *)

\* binding:"required" of the request body structs
BindOk(username, password, role) == username # "" /\ password # <<>> /\ role # ""
BindError == <<"Error:Field validation failed on the 'required' tag">>

\* what an endpoint leaves behind: the response, the use case outcome, the state
Outcome(us, k, once, calls, err, doc, token, status, body) ==
    [users |-> us, jwtKey |-> k, keyOnce |-> once, calls |-> calls, err |-> err,
     doc |-> doc, token |-> token, status |-> status, body |-> body]

\* UserController.Register of task_manager_test
RegisterTest(us, k, once, user, salt, entropyOk, dbOk) ==
    LET r == Register("test", us, user, salt, entropyOk, dbOk)
    IN  IF ~BindOk(user.username, user.password, user.role)
        THEN Outcome(us, k, once, <<>>, Nil, NoDoc, EmptyToken, 400, BindError)
        ELSE IF r.err = Nil
        THEN Outcome(r.users, k, once, r.calls, Nil, r.doc, EmptyToken, 201,
                     <<"User Registered successfully">>)
        ELSE IF r.err = ErrUserAlreadyExists
        THEN Outcome(r.users, k, once, r.calls, r.err, r.doc, EmptyToken, 409,
                     <<"a user with this username already exists">>)
        ELSE Outcome(r.users, k, once, r.calls, r.err, r.doc, EmptyToken, 500,
                     <<"could not register user">>)

\* Handler.Register of task_manager_clean
RegisterClean(us, k, once, user, salt, entropyOk, dbOk) ==
    LET r == Register("clean", us, user, salt, entropyOk, dbOk)
    IN  IF ~BindOk(user.username, user.password, user.role)
        THEN Outcome(us, k, once, <<>>, Nil, NoDoc, EmptyToken, 400, BindError)
        ELSE IF r.err = Nil
        THEN Outcome(r.users, k, once, r.calls, Nil, r.doc, EmptyToken, 201,
                     <<"User Registered successfully">>)
        ELSE Outcome(r.users, k, once, r.calls, r.err, r.doc, EmptyToken, 409, r.err)

\* controllers.Register of task_manager_auth
RegisterAuth(us, k, once, user, salt, entropyOk, dbOk) ==
    LET u == [user EXCEPT !.role = IF @ = "" THEN "user" ELSE @]
        r == DataRegister(us, u, salt, entropyOk, dbOk)
    IN  IF r.err = Nil
        THEN Outcome(r.users, k, once, r.calls, Nil, r.doc, EmptyToken, 201,
                     <<"User Registered successfully">>)
        ELSE Outcome(r.users, k, once, r.calls, r.err, r.doc, EmptyToken, 400, r.err)

\* the /register endpoint of the running service
RegisterEndpoint(a, us, k, once, user, salt, entropyOk, dbOk) ==
    IF a = "test" THEN RegisterTest(us, k, once, user, salt, entropyOk, dbOk)
    ELSE IF a = "clean" THEN RegisterClean(us, k, once, user, salt, entropyOk, dbOk)
    ELSE RegisterAuth(us, k, once, user, salt, entropyOk, dbOk)

\* UserController.Login of task_manager_test
LoginTest(key, us, k, once, username, password, t, dbOk) ==
    LET r == Login("test", key, us, username, password, t, dbOk)
    IN  IF ~BindOk(username, password, "-")
        THEN Outcome(us, k, once, <<>>, Nil, NoDoc, EmptyToken, 400, BindError)
        ELSE IF r.err = Nil
        THEN Outcome(us, k, once, r.calls, Nil, r.doc, r.token, 200, <<"token">>)
        ELSE IF r.err = ErrNotFound \/ r.err = ErrInvalidCredentials
        THEN Outcome(us, k, once, r.calls, r.err, r.doc, r.token, 401,
                     <<"invalid username or password">>)
        ELSE Outcome(us, k, once, r.calls, r.err, r.doc, r.token, 500,
                     <<"an internal server error occurred">>)

\* Handler.Login of task_manager_clean
LoginClean(key, us, k, once, username, password, t, dbOk) ==
    LET r == Login("clean", key, us, username, password, t, dbOk)
    IN  IF ~BindOk(username, password, "-")
        THEN Outcome(us, k, once, <<>>, Nil, NoDoc, EmptyToken, 400, BindError)
        ELSE IF r.err = Nil
        THEN Outcome(us, k, once, r.calls, Nil, r.doc, r.token, 200, <<"token">>)
        ELSE Outcome(us, k, once, r.calls, r.err, r.doc, r.token, 401, r.err)

\* controllers.Login of task_manager_auth, behind gin's Recovery middleware
LoginAuth(e, us, k, once, username, password, t, dbOk) ==
    LET d == DataLogin(us, username, password, dbOk)
        j == JwtKey(k, once, e)
        g == GenerateToken(j.key, d.doc.username, d.doc.role, t)
    IN  IF d.err # Nil
        THEN Outcome(us, k, once, d.calls, d.err, d.doc, EmptyToken, 401, d.err)
        ELSE IF j.panicked
        THEN Outcome(us, j.jwtKey, j.keyOnce, d.calls \o <<"JwtKey">>,
                     <<"JWT_SECRET environment variable not set">>, d.doc,
                     EmptyToken, 500, <<>>)
        ELSE IF g.err # Nil
        THEN Outcome(us, j.jwtKey, j.keyOnce, d.calls \o <<"JwtKey", "SignedString">>,
                     g.err, d.doc, EmptyToken, 500, <<"Failed to generate token">>)
        ELSE Outcome(us, j.jwtKey, j.keyOnce, d.calls \o <<"JwtKey", "SignedString">>,
                     Nil, d.doc, g.tok, 200, <<"token">>)

\* the /login endpoint of the running service
LoginEndpoint(a, key, e, us, k, once, username, password, t, dbOk) ==
    IF a = "test" THEN LoginTest(key, us, k, once, username, password, t, dbOk)
    ELSE IF a = "clean" THEN LoginClean(key, us, k, once, username, password, t, dbOk)
    ELSE LoginAuth(e, us, k, once, username, password, t, dbOk)

\* no /register or /login request served yet
NoSession ==
    [op |-> "none", username |-> "", password |-> <<>>, role |-> "",
     dbOk |-> TRUE, entropyOk |-> TRUE, at |-> 0, before |-> <<>>,
     calls |-> <<>>, err |-> Nil, doc |-> NoDoc, token |-> EmptyToken,
     status |-> 0, body |-> <<>>]

\* the record of a served request: its inputs and what the endpoint left behind
Session(op, username, password, role, dbOk, entropyOk, t, before, o) ==
    [op |-> op, username |-> username, password |-> password, role |-> role,
     dbOk |-> dbOk, entropyOk |-> entropyOk, at |-> t, before |-> before,
     calls |-> o.calls, err |-> o.err, doc |-> o.doc, token |-> o.token,
     status |-> o.status, body |-> o.body]

----------------------------------------------------------------------------
(* Goroutines of task_manager_auth: one per request, sharing jwtKey and keyOnce *)

\* how many requests are served concurrently
MaxRequests == 3
Requests == 1..MaxRequests

\* a goroutine: the request it serves ("login" | "protected" | "register"), where
\* it stands, the key it obtained for signing or verifying, for a protected
\* request the key its Bearer token was signed with and whether AuthMiddleware
\* admitted it, for a registration its username and the count it read
Goroutine(kind) ==
    [kind |-> kind, pc |-> "start", key |-> EmptyKey, signer |-> EmptyKey,
     admitted |-> FALSE, username |-> "", count |-> 0]
NoGoroutines ==
    [g \in Requests |-> [Goroutine("none") EXCEPT !.pc = "idle"]]

\* the keys a client may have signed the token it presents with
Signers == Secrets \cup {EmptyKey}

\* the Bearer token of a protected request: HS256 over the claims of an admin,
\* exp a validity window after the epoch, signed with signer
Presented(signer) ==
    SignedString("HS256", MapClaims(Str("alice"), Str("admin"), Num(ValiditySeconds)),
                 signer).tok

\* jwt.ParseWithClaims(tokenString, claims, keyfunc) in AuthMiddleware of
\* task_manager_auth, the keyfunc having returned k: err == nil && token.Valid
ParseWithClaims(k, tokenStr, t) ==
    /\ SegmentsOk(tokenStr)
    /\ tokenStr.hdr.ok /\ tokenStr.pay.ok
    /\ tokenStr.hdr.alg \in RegisteredAlgs
    /\ MethodVerify(tokenStr.hdr.alg, tokenStr.hdr, tokenStr.pay, tokenStr.sig, k) = Nil
    /\ ValidateClaims(tokenStr.pay, t) = Nil

\* a slice header read while another goroutine writes it
TornKey == "torn"

\* what an unsynchronised read of jwtKey may yield: the value in memory or, while
\* the initialiser is writing it, also the value being written or a mix of both
RacyRead(k, e, writing) == IF writing THEN {k, e, TornKey} ELSE {k}

----------------------------------------------------------------------------
(* Actions *)

\* gin contexts served side by side
MaxContexts == 2
Contexts == 1..MaxContexts
\* a context and the instant at which its AuthMiddleware ran
IdleContext == [c |-> IdleRequest, at |-> 0]
NoContexts == [i \in Contexts |-> IdleContext]

Init ==
    /\ app \in {"test", "clean"}
    /\ secret \in Secrets
    /\ now = 0
    /\ tok = EmptyToken
    /\ origin = NoOrigin
    /\ vres = NoResult
    /\ req = IdleRequest
    /\ users = <<>>
    /\ sess = NoSession
    /\ pw = NoPw
    /\ env = secret
    /\ jwtKey = EmptyKey
    /\ keyOnce = "fresh"
    /\ gor = NoGoroutines
    /\ inits = 0
    /\ proc = "serving"
    /\ ctxs = NoContexts

\* the clock advances by one tick
Tick ==
    /\ now % JumpTicks < MaxSubTicks
    /\ now' = now + 1
    /\ UNCHANGED <<app, secret, tok, origin, vres, req>>
    /\ UNCHANGED acctVars

\* the clock advances to one tick before a validity window has passed
Jump ==
    /\ now < MaxJumps * JumpTicks
    /\ now' = now + JumpTicks
    /\ UNCHANGED <<app, secret, tok, origin, vres, req>>
    /\ UNCHANGED acctVars

\* a service built with key issues a token
Generate ==
    /\ origin.op = "none"
    /\ \E key \in Secrets, u \in Usernames, r \in Roles :
         LET g == GenerateToken(key, u, r, now)
         IN  /\ tok' = g.tok
             /\ origin' = [op |-> "GenerateToken", key |-> key, username |-> u,
                           role |-> r, at |-> now, err |-> g.err]
    /\ vres' = NoResult
    /\ UNCHANGED <<app, secret, now, req>>
    /\ UNCHANGED acctVars

\* a key holder signs a claim set of its own with jwt.NewWithClaims / SignedString
ClientSign ==
    /\ origin.op = "none"
    /\ \E sg \in ClientSigners, cl \in ClientClaims :
         /\ tok' = [nseg |-> 3, hdr |-> [ok |-> TRUE, alg |-> sg[1]], pay |-> cl,
                    sig |-> Signature(sg[1], sg[2], [ok |-> TRUE, alg |-> sg[1]], cl)]
         /\ origin' = [NoOrigin EXCEPT !.op = "SignedString", !.key = sg[2]]
    /\ vres' = NoResult
    /\ UNCHANGED <<app, secret, now, req>>
    /\ UNCHANGED acctVars

\* a client alters the payload or header of a token it was given keeping the signature,
\* or appends or drops a segment
Tamper ==
    /\ req.pc = "idle"
    /\ vres.op = "none"
    /\ origin.op = "GenerateToken"
    /\ \/ tok' = [tok EXCEPT !.pay.role = Str("admin")]
       \/ tok' = [tok EXCEPT !.pay.exp = Num(@.n + ValiditySeconds)]
       \/ tok' = [tok EXCEPT !.hdr.alg = "none"]
       \/ tok' = [tok EXCEPT !.nseg = 4]
       \/ tok' = [tok EXCEPT !.nseg = 2]
    /\ tok' # tok
    /\ origin' = [origin EXCEPT !.op = "tampered"]
    /\ UNCHANGED <<app, secret, now, vres, req>>
    /\ UNCHANGED acctVars

\* a client presents a string that is no token
Garbage ==
    /\ origin.op = "none"
    /\ tok' \in GarbageTokens
    /\ origin' = [NoOrigin EXCEPT !.op = "garbage"]
    /\ vres' = NoResult
    /\ UNCHANGED <<app, secret, now, req>>
    /\ UNCHANGED acctVars

\* a direct call of ValidateToken(tok) on a service built with key
Validate ==
    /\ req.pc = "idle"
    /\ \E key \in Secrets :
         LET r == ValidateToken(app, key, tok, now)
         IN  vres' = [op |-> "validated", key |-> key, at |-> now,
                      claims |-> r.claims, err |-> r.err]
    /\ UNCHANGED <<app, secret, now, tok, origin, req>>
    /\ UNCHANGED acctVars

\* a request arrives carrying the current token (or none) in its Authorization header
StartRequest ==
    /\ req.pc = "idle"
    /\ \E route \in Routes, scheme \in Schemes,
          preset \in {Absent, Str("admin"), Str("user"), Num(123)} :
         /\ route # "/admin" => preset = Absent
         /\ req' = NewRequest(route, scheme, IF scheme = "" THEN EmptyToken ELSE tok, preset)
    /\ UNCHANGED <<app, secret, now, tok, origin, vres>>
    /\ UNCHANGED acctVars

RunAuthMiddleware ==
    /\ req.pc = "run"
    /\ Current(req) = "AuthMiddleware"
    /\ req' = Settle(AuthMiddleware(req))
    /\ UNCHANGED <<app, secret, now, tok, origin, vres>>
    /\ UNCHANGED acctVars

RunAdminOnly ==
    /\ req.pc = "run"
    /\ Current(req) = "AdminOnly"
    /\ req' = Settle(AdminOnly(req))
    /\ UNCHANGED <<app, secret, now, tok, origin, vres>>
    /\ UNCHANGED acctVars

RunSetRole ==
    /\ req.pc = "run"
    /\ Current(req) = "SetRole"
    /\ req' = Settle(SetRole(req))
    /\ UNCHANGED <<app, secret, now, tok, origin, vres>>
    /\ UNCHANGED acctVars

RunHandler ==
    /\ req.pc = "run"
    /\ Current(req) = "Handler"
    /\ req' = Settle(Handler(req))
    /\ UNCHANGED <<app, secret, now, tok, origin, vres>>
    /\ UNCHANGED acctVars

RunAccount ==
    /\ req.pc = "run"
    /\ Current(req) = "Account"
    /\ req' = Settle(Account(req))
    /\ UNCHANGED <<app, secret, now, tok, origin, vres>>
    /\ UNCHANGED acctVars

\* the response is written and the request context is discarded
Complete ==
    /\ req.pc = "done"
    /\ req' = IdleRequest
    /\ UNCHANGED <<app, secret, now, tok, origin, vres>>
    /\ UNCHANGED acctVars

\* the services called directly, as the service tests do
NextJwt == Tick \/ Jump \/ Generate \/ ClientSign \/ Tamper \/ Garbage \/ Validate

SpecJwt == Init /\ [][NextJwt]_vars

\* requests through the router
Next ==
    \/ Tick \/ Jump \/ Generate \/ ClientSign \/ Tamper \/ Garbage
    \/ StartRequest \/ RunAuthMiddleware \/ RunAdminOnly \/ RunSetRole \/ RunHandler
    \/ RunAccount \/ Complete

Spec == Init /\ [][Next]_vars

\* gin runs the chain of an accepted request to its end: c.Next() calls the
\* handlers one after the other on the request's goroutine
RunChain ==
    RunAuthMiddleware \/ RunAdminOnly \/ RunSetRole \/ RunHandler \/ RunAccount

FairSpec == Spec /\ WF_vars(RunChain)

----------------------------------------------------------------------------
(* Account requests: /register and /login served one at a time *)

\* the state of the token and gate side, left alone by the account operations
gateVars == <<app, secret, now, tok, origin, vres, req, procVars>>

RequestUsernames == Usernames \cup {""}

\* passwords a request may carry: empty, two short ones, one beyond MaxKeyBytes
RequestPasswords == {<<>>, <<1>>, <<2>>, Long(MaxKeyBytes) \o <<2>>}
\* the salt rand.Reader delivers to a registration
RequestSalts == {1}
\* what may go wrong while a request is served
Faults == {"none", "entropy", "db"}

InitUser ==
    /\ app \in {"test", "clean", "auth"}
    /\ secret = "k1"
    /\ now = 0
    /\ tok = EmptyToken
    /\ origin = NoOrigin
    /\ vres = NoResult
    /\ req = IdleRequest
    /\ users = <<>>
    /\ sess = NoSession
    /\ pw = NoPw
    /\ env \in IF app = "auth" THEN {secret, ""} ELSE {secret}
    /\ jwtKey = EmptyKey
    /\ keyOnce = "fresh"
    /\ gor = NoGoroutines
    /\ inits = 0
    /\ proc = "serving"
    /\ ctxs = NoContexts

\* the request body structs of task_manager_auth (models.User) are not known to
\* demand their fields, so its requests carry a username and a password
Sendable(username, password) ==
    app = "auth" => username # "" /\ password # <<>>

\* POST /register
RegisterRequest ==
    \E username \in RequestUsernames, password \in RequestPasswords,
       role \in RequestRoles, salt \in RequestSalts, fault \in Faults :
        LET entropyOk == fault # "entropy"
            dbOk == fault # "db"
            o == RegisterEndpoint(app, users, jwtKey, keyOnce,
                                  UserDoc(username, password, role),
                                  salt, entropyOk, dbOk)
        IN  /\ Sendable(username, password)
            /\ Len(o.users) <= MaxUsers
            /\ users' = o.users
            /\ sess' = Session("Register", username, password, role, dbOk,
                               entropyOk, now, users, o)
            /\ UNCHANGED <<gateVars, pw, env, jwtKey, keyOnce, gor, inits>>

\* POST /login; role is a role field the client may add to the body
LoginRequest ==
    \E username \in RequestUsernames, password \in RequestPasswords,
       role \in RequestRoles, dbOk \in BOOLEAN :
        LET o == LoginEndpoint(app, secret, env, users, jwtKey, keyOnce,
                               username, password, now, dbOk)
        IN  /\ Sendable(username, password)
            /\ sess' = Session("Login", username, password, role, dbOk, TRUE,
                               now, users, o)
            /\ jwtKey' = o.jwtKey
            /\ keyOnce' = o.keyOnce
            /\ inits' = IF keyOnce # o.keyOnce THEN inits + 1 ELSE inits
            /\ UNCHANGED <<gateVars, users, pw, env, gor>>

NextUser == RegisterRequest \/ LoginRequest

SpecUser == InitUser /\ [][NextUser]_vars

----------------------------------------------------------------------------
(* Direct calls of the password service *)

\* credential strings Hash did not produce: plaintexts, strings that are no
\* bcrypt hash, and bcrypt hashes made elsewhere with another cost
ForeignCredentials ==
    {PlainString(p) : p \in Passwords}
    \cup {ForeignString(f) : f \in ForeignFormats}
    \cup {Bcrypt(p, AuthCost, salt) : p \in {<<>>, <<1>>}, salt \in Salts}

\* hasher.Hash(password)
HashCall ==
    \E password \in Passwords, salt \in Salts, entropyOk \in BOOLEAN :
        LET h == Hash(password, salt, entropyOk)
        IN  /\ pw' = [op |-> "Hash", password |-> password, hashed |-> h.hashed,
                      err |-> h.err, entropyOk |-> entropyOk, other |-> <<>>,
                      ok |-> FALSE]
            /\ UNCHANGED <<gateVars, users, sess, env, jwtKey, keyOnce, gor, inits>>

\* hasher.Compare(hashed, other) on the string the last Hash call returned
CompareCall ==
    \E other \in Passwords :
        /\ pw.op = "Hash"
        /\ pw.err = Nil
        /\ pw' = [pw EXCEPT !.op = "Compare", !.other = other,
                            !.ok = Compare(pw.hashed, other)]
        /\ UNCHANGED <<gateVars, users, sess, env, jwtKey, keyOnce, gor, inits>>

\* hasher.Compare(hashed, other) on a string Hash did not produce
CompareForeign ==
    \E hashed \in ForeignCredentials, other \in Passwords :
        /\ pw' = [op |-> "CompareForeign", password |-> <<>>, hashed |-> hashed,
                  err |-> Nil, entropyOk |-> TRUE, other |-> other,
                  ok |-> Compare(hashed, other)]
        /\ UNCHANGED <<gateVars, users, sess, env, jwtKey, keyOnce, gor, inits>>

NextPwd == HashCall \/ CompareCall \/ CompareForeign

SpecPwd == Init /\ [][NextPwd]_vars

----------------------------------------------------------------------------
(* task_manager_auth under concurrent requests: Login goroutines reach the key
   through JwtKey(), AuthMiddleware goroutines read the variable jwtKey *)

InitKey ==
    /\ app = "auth"
    /\ secret \in Secrets
    /\ now = 0
    /\ tok = EmptyToken
    /\ origin = NoOrigin
    /\ vres = NoResult
    /\ req = IdleRequest
    /\ users = <<>>
    /\ sess = NoSession
    /\ pw = NoPw
    /\ env \in {secret, ""}
    /\ jwtKey = EmptyKey
    /\ keyOnce = "fresh"
    /\ gor = NoGoroutines
    /\ inits = 0
    /\ proc = "serving"
    /\ ctxs = NoContexts

keyFrame == <<gateVars, users, sess, pw, env>>

\* a goroutine is writing jwtKey
Writing == \E g \in Requests : gor[g].pc = "write"

\* gin starts a goroutine for a POST /login whose credentials data.Login accepted
AcceptLogin(g) ==
    /\ gor[g].kind = "none"
    /\ gor' = [gor EXCEPT ![g] = Goroutine("login")]
    /\ UNCHANGED <<keyFrame, jwtKey, keyOnce, inits>>

\* gin starts a goroutine for a request to a route under /api
AcceptProtected(g) ==
    /\ gor[g].kind = "none"
    /\ \E signer \in Signers :
          gor' = [gor EXCEPT ![g] = [Goroutine("protected") EXCEPT !.signer = signer]]
    /\ UNCHANGED <<keyFrame, jwtKey, keyOnce, inits>>

\* Login calls JwtKey(): keyOnce.Do returns at once when the initialiser has
\* run, runs it when nobody has, and waits while another goroutine runs it
OnceDo(g) ==
    /\ gor[g].kind = "login"
    /\ gor[g].pc = "start"
    /\ keyOnce # "running"
    /\ IF keyOnce = "done"
       THEN /\ gor' = [gor EXCEPT ![g].pc = "return"]
            /\ UNCHANGED <<keyOnce, inits>>
       ELSE /\ gor' = [gor EXCEPT ![g].pc = "init"]
            /\ keyOnce' = "running"
            /\ inits' = inits + 1
    /\ UNCHANGED <<keyFrame, jwtKey>>

\* the initialiser reads JWT_SECRET and panics when it is empty; sync.Once then
\* counts the initialiser as run
Getenv(g) ==
    /\ gor[g].pc = "init"
    /\ IF env = ""
       THEN /\ gor' = [gor EXCEPT ![g].pc = "panicked"]
            /\ keyOnce' = "done"
       ELSE /\ gor' = [gor EXCEPT ![g].pc = "write"]
            /\ UNCHANGED keyOnce
    /\ UNCHANGED <<keyFrame, jwtKey, inits>>

\* jwtKey = []byte(secret), and the initialiser returns
WriteKey(g) ==
    /\ gor[g].pc = "write"
    /\ jwtKey' = env
    /\ keyOnce' = "done"
    /\ gor' = [gor EXCEPT ![g].pc = "return"]
    /\ UNCHANGED <<keyFrame, inits>>

\* return jwtKey, handed to token.SignedString
ReturnKey(g) ==
    /\ gor[g].pc = "return"
    /\ gor' = [gor EXCEPT ![g].pc = "signed", ![g].key = jwtKey]
    /\ UNCHANGED <<keyFrame, jwtKey, keyOnce, inits>>

\* the Keyfunc of AuthMiddleware returns jwtKey, read without synchronisation
KeyfuncRead(g) ==
    /\ gor[g].kind = "protected"
    /\ gor[g].pc = "start"
    /\ \E k \in RacyRead(jwtKey, env, Writing) :
          gor' = [gor EXCEPT ![g].pc = "verified", ![g].key = k,
                             ![g].admitted =
                                 ParseWithClaims(k, Presented(gor[g].signer), now)]
    /\ UNCHANGED <<keyFrame, jwtKey, keyOnce, inits>>

NextKey ==
    \E g \in Requests :
        \/ AcceptLogin(g)
        \/ AcceptProtected(g)
        \/ OnceDo(g)
        \/ Getenv(g)
        \/ WriteKey(g)
        \/ ReturnKey(g)
        \/ KeyfuncRead(g)

SpecKey == InitKey /\ [][NextKey]_vars

----------------------------------------------------------------------------
(* Startup: main reads the configuration, builds the services and starts the
   router; requests are served only by a process that reached router.Run *)

\* main of task_manager_test: log.Fatal when JWT_SECRET is empty, otherwise
\* NewJWTService([]byte(jwtSecret)) and router.Run
MainTest(e) ==
    IF e = ""
    THEN [proc |-> "exited", secret |-> EmptyKey]
    ELSE [proc |-> "serving", secret |-> e]

\* main of task_manager_clean: the same check
MainClean(e) ==
    IF e = ""
    THEN [proc |-> "exited", secret |-> EmptyKey]
    ELSE [proc |-> "serving", secret |-> e]

\* main of task_manager_auth checks MONGODB_URI only and never reads JWT_SECRET
MainAuth(e) == [proc |-> "serving", secret |-> EmptyKey]

InitBoot ==
    /\ app \in {"test", "clean", "auth"}
    /\ secret = EmptyKey
    /\ now = 0
    /\ tok = EmptyToken
    /\ origin = NoOrigin
    /\ vres = NoResult
    /\ req = IdleRequest
    /\ users = <<>>
    /\ sess = NoSession
    /\ pw = NoPw
    /\ env \in {"k1", ""}
    /\ jwtKey = EmptyKey
    /\ keyOnce = "fresh"
    /\ gor = NoGoroutines
    /\ inits = 0
    /\ proc = "starting"
    /\ ctxs = NoContexts

Main ==
    /\ proc = "starting"
    /\ LET m == CASE app = "test" -> MainTest(env)
                  [] app = "clean" -> MainClean(env)
                  [] OTHER -> MainAuth(env)
       IN  /\ proc' = m.proc
           /\ secret' = m.secret
    /\ UNCHANGED <<app, now, tok, origin, vres, req, ctxs>>
    /\ UNCHANGED <<users, sess, pw, env, jwtKey, keyOnce, gor, inits>>

\* router.Run has been reached
Serving == proc = "serving"

\* task_manager_auth serves its requests in goroutines
ServeAuth == Serving /\ app = "auth" /\ NextKey

\* /register and /login of the layered services
ServeAccounts == Serving /\ app # "auth" /\ req.pc = "idle" /\ NextUser

\* requests to the routes behind the gates of the layered services
ServeGated ==
    /\ Serving
    /\ app # "auth"
    /\ sess.op = "none"
    /\ \/ StartRequest \/ RunAuthMiddleware \/ RunAdminOnly \/ RunSetRole
       \/ RunHandler \/ RunAccount \/ Complete

NextBoot == Main \/ ServeAuth \/ ServeAccounts \/ ServeGated

SpecBoot == InitBoot /\ [][NextBoot]_vars

----------------------------------------------------------------------------
(* Requests served concurrently by one JWT service and one pair of middleware
   closures (task_manager_test, task_manager_clean): gin gives every request a
   context of its own, and the closures hold the service, whose only field is
   the secret *)

\* the tokens the concurrent requests present: two issued by the service for
\* different identities, one issued under another secret, one short-lived
ConcTokens ==
    {GenerateToken(secret, "alice", "admin", 0).tok,
     GenerateToken(secret, "bob", "user", 0).tok,
     GenerateToken(CHOOSE k \in Secrets : k # secret, "bob", "admin", 0).tok,
     SignedString("HS256", MapClaims(Str("alice"), Str("admin"), Num(1)), secret).tok}

\* the handler at the gin index of context c
Step(c) ==
    CASE Current(c) = "AuthMiddleware" -> AuthMiddleware(c)
      [] Current(c) = "AdminOnly" -> AdminOnly(c)
      [] Current(c) = "SetRole" -> SetRole(c)
      [] Current(c) = "Account" -> Account(c)
      [] OTHER -> Handler(c)

\* mutant of Deliver: the identity is kept in a variable of the middleware
\* package, which every request in flight reads
DeliverShared(cs, i, c, t) ==
    [j \in DOMAIN cs |->
        IF j = i THEN [c |-> c, at |-> t]
        ELSE IF cs[j].c.pc = "run"
        THEN [cs[j] EXCEPT !.c.username = c.username, !.c.role = c.role]
        ELSE cs[j]]

\* c.Set, c.JSON, c.Abort and c.Next act on the context they are called on
Deliver(cs, i, c, t) == [cs EXCEPT ![i] = [c |-> c, at |-> t]]

\* gin accepts a request and gives it a context
ConcStart(i) ==
    /\ ctxs[i].c.pc = "idle"
    /\ \E route \in ApiPaths, scheme \in {"", "Bearer "}, t \in ConcTokens :
         /\ scheme = "" => t = GenerateToken(secret, "alice", "admin", 0).tok
         /\ ctxs' = [ctxs EXCEPT ![i] =
                       [c |-> NewRequest(route, scheme,
                                         IF scheme = "" THEN EmptyToken ELSE t, Absent),
                        at |-> 0]]
    /\ UNCHANGED <<app, secret, now, tok, origin, vres, req, proc>>
    /\ UNCHANGED <<users, sess, pw, env, jwtKey, keyOnce, gor, inits>>

\* the goroutine of request i runs the next handler of its chain
ConcStep(i) ==
    /\ ctxs[i].c.pc = "run"
    /\ ctxs' = Deliver(ctxs, i, Settle(Step(ctxs[i].c)),
                       IF Current(ctxs[i].c) = "AuthMiddleware" THEN now ELSE ctxs[i].at)
    /\ UNCHANGED <<app, secret, now, tok, origin, vres, req, proc>>
    /\ UNCHANGED <<users, sess, pw, env, jwtKey, keyOnce, gor, inits>>

\* the response of request i is written and its context returns to the pool
ConcComplete(i) ==
    /\ ctxs[i].c.pc = "done"
    /\ ctxs' = [ctxs EXCEPT ![i] = IdleContext]
    /\ UNCHANGED <<app, secret, now, tok, origin, vres, req, proc>>
    /\ UNCHANGED <<users, sess, pw, env, jwtKey, keyOnce, gor, inits>>

NextConc ==
    \/ Tick
    \/ \E i \in Contexts : ConcStart(i) \/ ConcStep(i) \/ ConcComplete(i)

SpecConc == Init /\ [][NextConc]_vars

----------------------------------------------------------------------------
(* task_manager_auth under concurrent registrations: data.Register reads the
   count of the username and inserts in two separate operations on the
   collection, and the code creates no unique index *)

\* gin starts a goroutine for a POST /register whose body was bound
AcceptRegister(g) ==
    /\ gor[g].kind = "none"
    /\ \E username \in Usernames :
          gor' = [gor EXCEPT ![g] = [Goroutine("register") EXCEPT !.username = username]]
    /\ UNCHANGED <<gateVars, users, sess, pw, env, jwtKey, keyOnce, inits>>

\* count, _ := userCollection.CountDocuments(ctx, bson.M{"username": ...}); the
\* error is dropped, so a failed count reads as 0; count > 0 returns the error
CountDocuments(g) ==
    /\ gor[g].kind = "register"
    /\ gor[g].pc = "start"
    /\ \E dbOk \in BOOLEAN :
          LET count == IF dbOk THEN Cardinality(Matching(users, gor[g].username)) ELSE 0
          IN  gor' = [gor EXCEPT ![g].count = count,
                                 ![g].pc = IF count > 0 THEN "refused" ELSE "insert"]
    /\ UNCHANGED <<gateVars, users, sess, pw, env, jwtKey, keyOnce, inits>>

\* bcrypt.GenerateFromPassword, then userCollection.InsertOne(ctx, user)
InsertUser(g) ==
    /\ gor[g].kind = "register"
    /\ gor[g].pc = "insert"
    /\ LET h == GenerateFromPassword(<<1>>, AuthCost, 1, TRUE)
           r == InsertOne(users, UserDoc(gor[g].username, h.hash, "user"), FALSE, TRUE)
       IN  /\ users' = r.users
           /\ gor' = [gor EXCEPT ![g].pc = "created"]
    /\ UNCHANGED <<gateVars, sess, pw, env, jwtKey, keyOnce, inits>>

NextReg ==
    \E g \in Requests : AcceptRegister(g) \/ CountDocuments(g) \/ InsertUser(g)

SpecReg == InitKey /\ [][NextReg]_vars

----------------------------------------------------------------------------
(* Properties of the token service (checked under SpecJwt) *)

\* three decodable segments
WellFormed(t) == t.nseg = 3 /\ t.hdr.ok /\ t.pay.ok

\* an HMAC token whose signature is the MAC of its own header and payload under key
CorrectlySigned(t, key) ==
    /\ WellFormed(t)
    /\ t.hdr.alg \in HMACAlgs
    /\ t.sig = [meth |-> t.hdr.alg, key |-> key, hdr |-> t.hdr, pay |-> t.pay]

Validated == vres.op = "validated"
ExpTicks(t) == t.pay.exp.n * TicksPerSecond

\* C1: GenerateToken(u, r) succeeds with a non-empty token, and ValidateToken on a
\* service with the same secret, before the token's exp, succeeds and returns
\* claims whose username is u and whose role is r.
C1_RoundTrip ==
    origin.op = "GenerateToken" =>
        /\ origin.err = Nil
        /\ tok.nseg > 0
        /\ (Validated /\ vres.key = origin.key /\ vres.at < ExpTicks(tok)) =>
              /\ vres.err = Nil
              /\ vres.claims.username = Str(origin.username)
              /\ vres.claims.role = Str(origin.role)

C1_Witness ==
    /\ origin.op = "GenerateToken"
    /\ Validated /\ vres.key = origin.key
    /\ vres.at >= origin.at + JumpTicks
    /\ vres.err = Nil
    /\ vres.claims.role = Str("admin")

\* C2: a correctly signed token with an exp claim is accepted at every time strictly
\* before exp and rejected as expired at exp and at every time after it; once it
\* has been rejected as expired, every later validation rejects it as expired.
C2_Boundary ==
    (Validated /\ CorrectlySigned(tok, vres.key) /\ IsNum(tok.pay.exp)) =>
        IF vres.at < ExpTicks(tok)
        THEN vres.err = Nil /\ vres.claims = tok.pay
        ELSE ErrorContains(vres.err, "token is expired") /\ vres.claims = NilClaims

C2_StaysExpired ==
    (/\ Validated /\ ErrorContains(vres.err, "token is expired")
     /\ vres'.op = "validated" /\ vres'.key = vres.key /\ tok' = tok)
        => ErrorContains(vres'.err, "token is expired")

C2_Expiry == [][C2_Boundary' /\ C2_StaysExpired]_vars

C2_Witness ==
    /\ origin.op = "GenerateToken"
    /\ Validated /\ vres.key = origin.key
    /\ vres.at = ExpTicks(tok)
    /\ ErrorContains(vres.err, "token is expired")

\* C3: a token issued by a service built with one secret is rejected by a service
\* built with a different secret with the signature-invalid error, and no claims
\* are returned.
C3_WrongSecret ==
    (origin.op = "GenerateToken" /\ Validated /\ vres.key # origin.key) =>
        /\ ErrorContains(vres.err, "signature is invalid")
        /\ vres.claims = NilClaims

C3_Witness ==
    /\ origin.op = "GenerateToken" /\ Validated /\ vres.key # origin.key
    /\ ErrorContains(vres.err, "signature is invalid")

\* C4: every well-formed token whose header declares a (registered) signing algorithm
\* outside the HMAC family is rejected with the unexpected-signing-method error
\* and yields no claims.
C4_UnexpectedAlgorithm ==
    (Validated /\ WellFormed(tok) /\ tok.hdr.alg \in RegisteredAlgs \ HMACAlgs) =>
        /\ ErrorContains(vres.err, "unexpected signing method")
        /\ vres.claims = NilClaims

----------------------------------------------------------------------------
(* Properties of the gates (checked under Spec) *)

ApiRoutes == {"/api/tasks", "/api/admin/dashboard"}
InFlight == req.pc \in {"run", "done"}
Bearer == req.auth.scheme = "Bearer "

\* AuthMiddleware has run on the request: it either aborted or handed over
AuthRan == InFlight /\ req.route \in ApiRoutes /\ (req.index >= 2 \/ req.aborted)
AuthAdmitted == AuthRan /\ req.index >= 2
\* the gate's ValidateToken call on the request's token succeeded
TokenVerified == req.validateCalls = 1 /\ req.verr = Nil

\* C6: AuthMiddleware admits a request exactly when it carries a Bearer header and
\* ValidateToken succeeds on its token, and every admitted request has username
\* and role in its context, equal to the token's username and role claims.
C6_AdmitsWithIdentity ==
    AuthRan =>
        /\ AuthAdmitted <=> (Bearer /\ TokenVerified)
        /\ AuthAdmitted =>
              /\ req.username # Absent /\ req.role # Absent
              /\ req.username = req.auth.tok.pay.username
              /\ req.role = req.auth.tok.pay.role

\* C7: a request without a "Bearer " Authorization header is answered 401 with an
\* error body and aborted; its handler never runs and ValidateToken is never called.
C7_NoBearer ==
    (InFlight /\ req.route \in ApiRoutes /\ ~Bearer) =>
        /\ req.validateCalls = 0
        /\ req.handlerRan = 0 /\ req.adminOnlyRan = 0
        /\ req.pc = "done" =>
              req.status = 401 /\ req.body = "missing token" /\ req.aborted

C7_Witness ==
    /\ req.pc = "done" /\ req.route = "/api/tasks"
    /\ req.auth.scheme = "Basic " /\ CorrectlySigned(req.auth.tok, secret)
    /\ req.status = 401

\* C8: whatever verification error ValidateToken returns, the response is 401 with
\* the body "invalid or expired token", the request is aborted and no later
\* handler runs.
C8_UniformFailure ==
    (InFlight /\ req.validateCalls > 0 /\ req.verr # Nil) =>
        /\ req.status = 401 /\ req.body = "invalid or expired token"
        /\ req.aborted /\ req.pc = "done"
        /\ req.handlerRan = 0 /\ req.adminOnlyRan = 0

C8_Witness ==
    /\ req.pc = "done" /\ ErrorContains(req.verr, "token is expired")
    /\ req.status = 401 /\ req.body = "invalid or expired token"

AdminOnlyPos == CHOOSE i \in 1..3 : Chain(req.route, req.preset)[i] = "AdminOnly"

\* C9: AdminOnly hands the request on exactly when the context role is the string
\* "admin"; for any other, missing or non-string role it answers 403 and aborts,
\* the handler does not run, and it never panics.
C9_AdminOnly ==
    req.adminOnlyRan > 0 =>
        /\ ~req.panicked
        /\ IF req.role = Str("admin")
           THEN ~req.aborted /\ req.index > AdminOnlyPos /\ req.status # 403
           ELSE /\ req.status = 403 /\ req.body = "admin access required"
                /\ req.aborted /\ req.handlerRan = 0

C9_Witness ==
    /\ req.pc = "done" /\ req.route = "/admin" /\ req.role = Num(123)
    /\ req.adminOnlyRan = 1 /\ req.status = 403

\* C10: on /api/admin/dashboard AdminOnly runs only after AuthMiddleware admitted
\* the request: failed authentication ends in 401 without AdminOnly running,
\* successful authentication with a role other than "admin" ends in 403, and the
\* handler runs only after successful authentication with role "admin".
C10_GateOrder ==
    req.route = "/api/admin/dashboard" =>
        /\ req.adminOnlyRan > 0 => (Bearer /\ TokenVerified)
        /\ req.handlerRan > 0 =>
              (Bearer /\ TokenVerified /\ req.auth.tok.pay.role = Str("admin"))
        /\ req.pc = "done" =>
              /\ ~(Bearer /\ TokenVerified) =>
                    req.status = 401 /\ req.adminOnlyRan = 0 /\ req.handlerRan = 0
              /\ (Bearer /\ TokenVerified /\ req.auth.tok.pay.role # Str("admin")) =>
                    req.status = 403 /\ req.adminOnlyRan = 1 /\ req.handlerRan = 0
              /\ (Bearer /\ TokenVerified /\ req.auth.tok.pay.role = Str("admin")) =>
                    req.status = 200 /\ req.handlerRan = 1

C10_Witness ==
    /\ req.pc = "done" /\ req.route = "/api/admin/dashboard"
    /\ origin.op = "GenerateToken" /\ origin.role = "user" /\ origin.key = secret
    /\ TokenVerified /\ req.status = 403

----------------------------------------------------------------------------
(* Properties of the account use cases (checked under SpecUser) *)

\* the use cases taken through interfaces: task_manager_test and task_manager_clean
LayeredApps == {"test", "clean"}

\* the last request was a /login that reached the Login use case
LoginServed == sess.op = "Login" /\ sess.calls # <<>>
\* the last request was a /register that reached the registration code
RegisterServed == sess.op = "Register" /\ sess.calls # <<>>

\* the stored document the login's username selects, if the collection answers
Found == sess.dbOk /\ Matching(sess.before, sess.username) # {}
Stored == sess.before[CHOOSE i \in Matching(sess.before, sess.username) : TRUE]
PasswordMatches == Found /\ Compare(Stored.password, sess.password)

IsPrefix(p, q) == Len(p) <= Len(q) /\ \A i \in 1..Len(p) : p[i] = q[i]

\* C11: Login calls FindByUsername, then Compare, then GenerateToken, in that
\* order; a user that is not found ends the call after FindByUsername with the
\* repository's error and an empty token; a password Compare refuses ends it
\* after Compare with the invalid-credentials error and an empty token; a
\* non-empty token is returned only when the user was found and Compare agreed.
C11_LoginOrder ==
    (app \in LayeredApps /\ LoginServed) =>
        /\ IsPrefix(sess.calls, <<"FindByUsername", "Compare", "GenerateToken">>)
        /\ ~Found =>
              /\ sess.calls = <<"FindByUsername">>
              /\ sess.err # Nil
              /\ sess.err = FindByUsername(app, sess.before, sess.username, sess.dbOk).err
              /\ sess.token = EmptyToken
        /\ (Found /\ ~PasswordMatches) =>
              /\ sess.calls = <<"FindByUsername", "Compare">>
              /\ sess.err = InvalidCredentials(app)
              /\ sess.token = EmptyToken
        /\ sess.token # EmptyToken =>
              /\ PasswordMatches
              /\ sess.calls = <<"FindByUsername", "Compare", "GenerateToken">>

C11_Witness ==
    /\ app \in LayeredApps
    /\ LoginServed
    /\ Found
    /\ ~PasswordMatches
    /\ sess.calls = <<"FindByUsername", "Compare">>
    /\ sess.err = InvalidCredentials(app)

\* the key the running service signs with
SigningKey == IF app = "auth" THEN jwtKey ELSE secret

\* C12: the token of a successful Login is GenerateToken(username, role) of the
\* stored document the repository returned; its role claim is the stored role,
\* whatever role the login request carried.
C12_StoredRole ==
    (LoginServed /\ sess.status = 200) =>
        /\ Found
        /\ sess.token = GenerateToken(SigningKey, Stored.username, Stored.role, sess.at).tok
        /\ sess.token.pay.username = Str(sess.username)
        /\ sess.token.pay.role = Str(Stored.role)

C12_Witness ==
    /\ LoginServed
    /\ sess.status = 200
    /\ sess.role = "admin"
    /\ Stored.role = "user"
    /\ sess.token.pay.role = Str("user")

\* the registration handed a document to the repository for persistence
Persisting ==
    /\ RegisterServed
    /\ Len(sess.calls) >= 2
    /\ sess.calls[Len(sess.calls)] \in {"Create", "InsertOne"}

\* the call that hashes the password, and the cost it asks for
HashStep == IF app = "auth" THEN "GenerateFromPassword" ELSE "Hash"
HashCost == IF app = "auth" THEN AuthCost ELSE DefaultCost

\* C13: every document Register hands to the repository carries as password the
\* hash of the submitted plaintext, computed before Create is called; no
\* persisted document's password is the plaintext that was submitted.
C13_OnlyHashPersisted ==
    /\ Persisting =>
          /\ sess.calls[Len(sess.calls) - 1] = HashStep
          /\ \E salt \in Salts :
                sess.doc.password = Bcrypt(sess.password, HashCost, salt)
          /\ Compare(sess.doc.password, sess.password)
          /\ sess.doc.password # PlainString(sess.password)
    /\ \A i \in 1..Len(users) :
          /\ users[i].password.fmt = "bcrypt"
          /\ \A p \in RequestPasswords : users[i].password # PlainString(p)

C13_Witness ==
    /\ Persisting
    /\ sess.status = 201
    /\ users # <<>>
    /\ users[Len(users)] = sess.doc
    /\ sess.doc.password.fmt = "bcrypt"

\* the error Hash returns on the password of the last registration, if any
HashError == Hash(sess.password, 1, sess.entropyOk).err

\* C14: when Hash fails during Register, Create is not called and the users
\* collection is as before, the error of Hash is returned as it is, and Hash was
\* called once.
C14_HashFailure ==
    (app \in LayeredApps /\ RegisterServed /\ HashError # Nil) =>
        /\ sess.calls = <<"Hash">>
        /\ users = sess.before
        /\ sess.err = HashError

C14_Witness ==
    /\ app \in LayeredApps
    /\ RegisterServed
    /\ ~sess.entropyOk
    /\ HashError = <<"unexpected EOF">>
    /\ sess.err = HashError
    /\ sess.calls = <<"Hash">>

\* the username of the last registration is already in the collection
DuplicateUsername == Matching(sess.before, sess.username) # {}

\* C15: a hashing failure during registration is answered with status 500, and
\* status 409 is given to a duplicate username only.
C15_HashFailureStatus ==
    (app \in LayeredApps /\ RegisterServed) =>
        /\ HashError # Nil => sess.status = 500
        /\ sess.status = 409 => DuplicateUsername

\* C16: /login answers an unknown username and a wrong password for a known
\* username with the same response, status 401 and the body
\* {"error": "invalid username or password"}, so the response does not tell
\* whether the account exists.
C16_UniformLoginFailure ==
    (LoginServed /\ sess.dbOk /\ ~PasswordMatches) =>
        /\ sess.status = 401
        /\ sess.body = <<"invalid username or password">>
        /\ sess.token = EmptyToken

C16_Witness ==
    /\ LoginServed
    /\ sess.dbOk
    /\ users # <<>>
    /\ ~Found
    /\ sess.status = 401
    /\ sess.body = <<"invalid username or password">>

----------------------------------------------------------------------------
(* Properties of the password service (checked under SpecPwd) *)

\* C17: Hash succeeds on every password, the empty one included, unless the
\* salt cannot be read, and Compare accepts the password against its own hash.
C17_HashThenCompare ==
    /\ (pw.op = "Hash" /\ pw.entropyOk) => pw.err = Nil
    /\ (pw.op = "Compare" /\ pw.other = pw.password) => pw.ok

\* C18: Compare refuses every password other than the one that was hashed.
C18_OtherPasswordRefused ==
    (pw.op = "Compare" /\ pw.other # pw.password) => ~pw.ok

\* C19: on a string that is no bcrypt hash Compare returns false, as it does on
\* a wrong password, whatever the password.
C19_ForeignCredential ==
    (pw.op = "CompareForeign" /\ pw.hashed.fmt # "bcrypt") => pw.ok = FALSE

C19_Witness ==
    /\ pw.op = "CompareForeign"
    /\ pw.hashed.fmt \in ForeignFormats
    /\ pw.other = <<1>>
    /\ pw.ok = FALSE

----------------------------------------------------------------------------
(* Properties of the signing secret of task_manager_auth (checked under SpecKey) *)

\* goroutine g has obtained the key it signs or verifies with
UsedKey(g) == gor[g].pc \in {"signed", "verified"}

\* C20: with JWT_SECRET set, the secret is initialised once and keeps its value,
\* and every reader, Login through JwtKey() and AuthMiddleware through jwtKey,
\* uses the same bytes, in every interleaving of logins and protected requests,
\* also for protected requests served before the first login.
C20_OneSecretForAll ==
    env # "" =>
        /\ inits <= 1
        /\ keyOnce = "done" => jwtKey = env
        /\ \A g \in Requests : UsedKey(g) => gor[g].key = env
        /\ \A g, h \in Requests : (UsedKey(g) /\ UsedKey(h)) => gor[g].key = gor[h].key

----------------------------------------------------------------------------
(* Properties of the startup (checked under SpecBoot) *)

\* some goroutine of task_manager_auth has taken a request
GoroutineServing == \E g \in Requests : gor[g].kind # "none"

\* C21: when JWT_SECRET is absent the process fails at startup and never serves:
\* it does not reach router.Run, no /register, /login or /api request is handled,
\* and no goroutine signs or verifies a token.
C21_NoSecretNoService ==
    env = "" =>
        /\ ~Serving
        /\ req = IdleRequest
        /\ sess = NoSession
        /\ ~GoroutineServing

----------------------------------------------------------------------------
(* Properties of the route table (checked under Spec) *)

\* C22: on every route under /api the handler runs only after AuthMiddleware
\* admitted the same request, a request that carries no valid Bearer token ends
\* with 401 and its handler not run, and a request to /register or /login reaches
\* its handler whatever its Authorization header, with no token check and no 401.
C22_GatedAndPublicRoutes ==
    /\ (req.route \in ApiRoutes /\ req.handlerRan > 0) => (Bearer /\ TokenVerified)
    /\ (req.route \in ApiRoutes /\ req.pc = "done" /\ ~(Bearer /\ TokenVerified)) =>
          (req.status = 401 /\ req.handlerRan = 0)
    /\ (req.route \in PublicRoutes /\ req.pc = "done") =>
          /\ req.handlerRan = 1
          /\ req.validateCalls = 0
          /\ req.status # 401

C22_Witness ==
    /\ req.pc = "done"
    /\ req.route = "/api/tasks"
    /\ req.handlerRan = 1
    /\ TokenVerified

----------------------------------------------------------------------------
(* Further properties of the token service (checked under SpecJwt) *)

\* the whole second, counted from the epoch, in which instant t lies
WholeSecond(t) == t \div TicksPerSecond

\* C23: a token made by GenerateToken is signed with HS256 and its exp claim is the
\* absolute instant of issuance plus 24 hours, in whole seconds since the epoch;
\* every later successful verification returns that same exp, however much later
\* it happens.
C23_ExpFixedAtIssuance ==
    origin.op = "GenerateToken" =>
        /\ tok.hdr.alg = "HS256"
        /\ tok.pay.exp = Num(WholeSecond(origin.at + ValiditySeconds * TicksPerSecond))
        /\ (Validated /\ vres.err = Nil) =>
              vres.claims.exp = Num(WholeSecond(origin.at + ValiditySeconds * TicksPerSecond))

C23_Witness ==
    /\ origin.op = "GenerateToken"
    /\ origin.at >= TicksPerSecond
    /\ Validated
    /\ vres.err = Nil
    /\ vres.at > origin.at

\* the presented token's exp has passed at the instant of the last verification
ExpiredWhenValidated == IsNum(tok.pay.exp) /\ vres.at >= ExpTicks(tok)

\* C24: ValidateToken checks structure, then signing algorithm, then signature,
\* then expiry, and reports the first failure: a token that is not three decodable
\* segments is malformed; a well-formed token with an algorithm outside the HMAC
\* family is an unexpected signing method whatever its signature and expiry; an
\* HMAC token with a wrong signature is signature-invalid and never expired, even
\* when its exp has passed; and the method that verifies is the service's own
\* (HS256), never one the token's header selects.
C24_CheckOrder ==
    Validated =>
        /\ ~WellFormed(tok) => ErrorContains(vres.err, "token is malformed")
        /\ (WellFormed(tok) /\ tok.hdr.alg \notin HMACAlgs) =>
              ErrorContains(vres.err, "unexpected signing method")
        /\ (WellFormed(tok) /\ tok.hdr.alg \in HMACAlgs
              /\ ~CorrectlySigned(tok, vres.key)) =>
              /\ ErrorContains(vres.err, "signature is invalid")
              /\ ~ErrorContains(vres.err, "token is expired")
        /\ vres.err = Nil => tok.hdr.alg = "HS256"

\* the half of C24 that the code keeps: an expired token signed with a wrong
\* secret is reported as signature-invalid
C24_SignatureBeforeExpiry ==
    (Validated /\ WellFormed(tok) /\ tok.hdr.alg \in HMACAlgs
       /\ ~CorrectlySigned(tok, vres.key) /\ ExpiredWhenValidated) =>
        /\ ErrorContains(vres.err, "signature is invalid")
        /\ ~ErrorContains(vres.err, "token is expired")

\* C30: every token ValidateToken accepts carries a numeric exp claim that lies
\* strictly after the instant of the verification; a correctly signed token with
\* no exp claim is refused.
C30_AcceptedTokensExpire ==
    (Validated /\ vres.err = Nil) =>
        /\ IsNum(tok.pay.exp)
        /\ vres.at < ExpTicks(tok)

\* the half of C30 that the code keeps: an accepted token that has an exp is
\* accepted strictly before it
C30_AcceptedBeforeExp ==
    (Validated /\ vres.err = Nil /\ IsNum(tok.pay.exp)) => vres.at < ExpTicks(tok)

----------------------------------------------------------------------------
(* Further properties of the gates (checked under Spec and FairSpec) *)

\* the terminal outcomes a finished request shows
OutcomesOf(c) ==
    {o \in {"401", "403", "admitted"} :
        \/ o = "401" /\ c.status = 401 /\ c.handlerRan = 0
        \/ o = "403" /\ c.status = 403 /\ c.handlerRan = 0
        \/ o = "admitted" /\ c.handlerRan = 1 /\ c.status \notin {401, 403}}

\* a request in the pipeline has no outcome yet, a finished one has exactly one,
\* and each gate and the handler ran at most once
OneOutcome ==
    /\ req.validateCalls <= 1
    /\ req.adminOnlyRan <= 1
    /\ req.handlerRan <= 1
    /\ req.pc = "run" => req.status = 0
    /\ req.pc = "done" => Cardinality(OutcomesOf(req)) = 1

\* a rejected request changes no more until it is discarded, and every step of a
\* request either ends it or moves it one handler on
NoRetry ==
    /\ req.status \in {401, 403} => req' \in {req, IdleRequest}
    /\ (req.pc = "run" /\ req' # req) =>
          (req'.pc = "done" \/ req'.index = req.index + 1)

\* C25: every request that enters the pipeline reaches exactly one terminal
\* outcome (rejected 401, rejected 403, or admitted to the handler) after at most
\* one ValidateToken call and one role check; after a rejection no later gate or
\* handler of the request runs, and no step is retried.
C25_OneTerminalOutcome ==
    /\ []OneOutcome
    /\ [][NoRetry]_vars
    /\ (req.pc = "run") ~> (req.pc = "done")

C25_Witness ==
    /\ req.pc = "done"
    /\ req.route = "/api/admin/dashboard"
    /\ req.status = 403
    /\ req.validateCalls = 1
    /\ req.adminOnlyRan = 1

----------------------------------------------------------------------------
(* Properties of concurrent requests (checked under SpecConc) *)

\* what a request with this route and header gets when it is the only request
\* and its token is verified at instant t
AloneOutcome(route, auth, t) ==
    LET v == ValidateToken(app, secret, auth.tok, t)
        u == IF IsStr(v.claims.username) THEN v.claims.username ELSE Absent
        r == IF IsStr(v.claims.role) THEN v.claims.role ELSE Absent
    IN  IF auth.scheme # "Bearer " \/ v.err # Nil
        THEN [status |-> 401, username |-> Absent, role |-> Absent]
        ELSE IF route = "/api/admin/dashboard" /\ r # Str("admin")
        THEN [status |-> 403, username |-> u, role |-> r]
        ELSE [status |-> 200, username |-> u, role |-> r]

OutcomeOf(c) == [status |-> c.status, username |-> c.username, role |-> c.role]

\* C26: however the requests served side by side interleave, every finished
\* request has the status, username and role it gets when processed alone at the
\* instant its token was verified, and the identity in a context is never
\* anything but the identity of that request's own token.
C26_IndependentRequests ==
    \A i \in Contexts :
        LET c == ctxs[i].c
        IN  /\ c.pc = "done" => OutcomeOf(c) = AloneOutcome(c.route, c.auth, ctxs[i].at)
            /\ c.username \in {Absent, c.auth.tok.pay.username}
            /\ c.role \in {Absent, c.auth.tok.pay.role}

\* two requests with different identities in flight together, both past
\* AuthMiddleware: one finished and admitted, the other about to meet AdminOnly
C26_Witness ==
    /\ ctxs[1].c.pc = "done"
    /\ ctxs[1].c.status = 200
    /\ ctxs[1].c.username = Str("alice")
    /\ ctxs[2].c.pc = "run"
    /\ ctxs[2].c.route = "/api/admin/dashboard"
    /\ ctxs[2].c.index = 2
    /\ ctxs[2].c.username = Str("bob")
    /\ ctxs[2].c.role = Str("user")

----------------------------------------------------------------------------
(* Frame of the gates (checked under Spec) *)

\* a gate (AuthMiddleware, with its ValidateToken call, or AdminOnly) takes a step
GateStep ==
    /\ req.pc = "run"
    /\ Current(req) \in {"AuthMiddleware", "AdminOnly"}
    /\ req' # req

\* C27: a step of a gate leaves the service's secret, the token string and the
\* request's route and header as they were; a step that rejects (401 or 403)
\* leaves the context keys username and role as they were; and a step of
\* AdminOnly never changes a context key.
C27_GateFrame ==
    [][GateStep =>
          /\ secret' = secret
          /\ tok' = tok
          /\ req'.auth = req.auth
          /\ req'.route = req.route
          /\ req'.status \in {401, 403} =>
                (req'.username = req.username /\ req'.role = req.role)
          /\ Current(req) = "AdminOnly" =>
                (req'.username = req.username /\ req'.role = req.role)]_vars

\* AdminOnly turned away a request whose identity AuthMiddleware had written
C27_Witness ==
    /\ req.pc = "done"
    /\ req.status = 403
    /\ req.validateCalls = 1
    /\ req.username = Str("alice")
    /\ req.role = Str("user")

----------------------------------------------------------------------------
(* Who can get a token admitted by task_manager_auth (checked under SpecKey) *)

\* C28: in task_manager_auth AuthMiddleware admits a token only when its signature
\* was computed with the non-empty JWT_SECRET value, whatever logins came before
\* and however the requests interleave; a token signed with the empty key is
\* never admitted, and Login never signs with the empty key.
C28_OnlySecretHolders ==
    \A g \in Requests :
        /\ (gor[g].kind = "protected" /\ gor[g].admitted) =>
              (env # "" /\ gor[g].signer = env)
        /\ gor[g].pc = "signed" => gor[g].key # EmptyKey

----------------------------------------------------------------------------
(* Properties of concurrent registrations (checked under SpecReg) *)

\* C29: in task_manager_auth, however concurrent Register calls interleave, the
\* users collection never holds two accounts with the same username, and a
\* Register that inserted did so for a username no other account has.
C29_UniqueUsernames ==
    \A u \in Usernames : Cardinality(Matching(users, u)) <= 1

\* the half of C29 that the code keeps: a Register whose count found the username
\* is refused
C29_RefusedWhenCounted ==
    \A g \in Requests :
        (gor[g].kind = "register" /\ gor[g].count > 0) => gor[g].pc = "refused"

====
